---- MODULE Spec2Model ----
(***************************************************************************)
(* Noteblock music maker: the note store, the transport clock and the      *)
(* export encoder of the four program variants held in src/:               *)
(*   part000  src/unnamed/part_000                                         *)
(*   scriptA  src/script.js lines 1-250   (global speed, repeat checkbox)  *)
(*   scriptB  src/script.js lines 252-489 (play() without a guard)         *)
(*   scriptC  src/script.js lines 491-755 (guarded play() and pause())     *)
(* JavaScript is single threaded: every handler runs to completion, so     *)
(* each handler and each firing of an interval timer is one atomic step.   *)
(* Four specifications share the actions: Spec (the transport over a fixed *)
(* song), SpecNotes (the editor with playback), SpecExport (the editor     *)
(* with export and query) and SpecPitch (export and query, every pitch).   *)
(***************************************************************************)
EXTENDS Integers, Sequences, FiniteSets, TLC

\* ---------------------------------------------------------------- bounds
\* CONFIG.totalTicks (400, or TOTAL_TICKS = 200 in scriptA), scaled down.
TotalTicks == 2
\* Most notes held by the note store at once.
MaxNotes == 2
\* Most interval timers alive at once (only scriptB can leak timers).
MaxTimers == 2

\* ------------------------------------------------------- program constants
TICKS_PER_SECOND == 20

\* CONFIG.pitchRange / NOTES_COUNT: the grid's pitch indices are 0..24.
pitchRange == 25

\* CONFIG.totalTicks of the page; the model's transport runs over TotalTicks.
CONFIG_totalTicks == 400

\* Representative pitch indices out of 0..24 and instrument indices out of
\* 0..4 (in scriptA the instrument is the name INSTRUMENTS[i] of the option).
Pitches == {0, 12}
Instruments == {0, 1}
\* Ticks of the grid columns that get clicked: the first and the last.
EditTicks == {0, TotalTicks - 1}
\* Positions of the progress slider (an <input type=range>, 0..100).
SeekValues == {0, 50, 75, 100}
\* Texts typed into the speed input, one character per element.
SpeedTexts == { <<>>, <<"0">>, <<"1">>, <<"2">>, <<"-", "1">> }
\* Math.random() in thousandths: the least and the greatest draw.
RandomDraws == {0, 999}

Variants == {"part000", "scriptA", "scriptB", "scriptC"}

\* The null interval handle; setInterval returns ids >= 1.
NullHandle == 0

VARIABLES
    variant,           \* which of the four programs is loaded
    songData,          \* the note list, in array order
    isPlaying,
    currentTick,
    playbackInterval,  \* the handle play() stored last, or NullHandle
    timers,            \* the interval timers alive: [id, ms]
    selectedInst,      \* selectedInst / selectedInstrument / currentInstrument
    speedInput,        \* the text in the speed input
    speed,             \* scriptA's global speed (a parsed number)
    repeatChecked,     \* scriptA's repeat checkbox
    out,               \* what the last handler was given and emitted
    pre,               \* the state the last handler started from
    run                \* bookkeeping of an undisturbed play-through

vars == <<variant, songData, isPlaying, currentTick, playbackInterval, timers,
          selectedInst, speedInput, speed, repeatChecked, out, pre, run>>

\* ------------------------------------------------------------- numbers
\* A JavaScript number as far as the speed needs it.
Num(n) == [k |-> "num", v |-> n]
NaN == [k |-> "nan", v |-> 0]
Infinity == [k |-> "inf", v |-> 0]

Digits == {"0", "1", "2", "3", "4", "5", "6", "7", "8", "9"}

DigitValue(c) ==
    CASE c = "0" -> 0 [] c = "1" -> 1 [] c = "2" -> 2 [] c = "3" -> 3
      [] c = "4" -> 4 [] c = "5" -> 5 [] c = "6" -> 6 [] c = "7" -> 7
      [] c = "8" -> 8 [] c = "9" -> 9

RECURSIVE DigitsPrefix(_, _, _)
\* The value of the longest run of digits of s from position i on, acc so far;
\* -1 when there is no digit at i.
DigitsPrefix(s, i, acc) ==
    IF i > Len(s) \/ s[i] \notin Digits
    THEN acc
    ELSE DigitsPrefix(s, i + 1, (IF acc < 0 THEN 0 ELSE acc) * 10 + DigitValue(s[i]))

\* parseFloat on a text without fraction or exponent: an optional sign, then
\* the longest prefix of digits; NaN when no digit is there.
ParseFloat(s) ==
    LET neg == Len(s) > 0 /\ s[1] = "-"
        start == IF Len(s) > 0 /\ s[1] \in {"-", "+"} THEN 2 ELSE 1
        n == DigitsPrefix(s, start, -1)
    IN  IF n < 0 THEN NaN ELSE Num(IF neg THEN 0 - n ELSE n)

\* x || 1.0 : NaN and 0 are falsy.
OrOne(x) == IF x.k = "nan" \/ (x.k = "num" /\ x.v = 0) THEN Num(1) ELSE x

\* (1000 / ticksPerSecond) / speed, for the speeds of SpeedTexts (all of
\* which divide 50 exactly).
Period(s) ==
    CASE s.k = "nan" -> NaN
      [] s.k = "inf" -> Num(0)
      [] s.k = "num" /\ s.v = 0 -> Infinity
      [] OTHER -> Num((1000 \div TICKS_PER_SECOND) \div s.v)

\* PlaySpeed gone wrong: play() divides by the speed kept from page load.
PlaySpeedKept(v, text, global) == global

\* The speed play() divides by.
PlaySpeed(v, text, global) ==
    IF v = "scriptA" THEN global ELSE OrOne(ParseFloat(text))

\* ------------------------------------------------------------ note store
Note(t, p, i) == [tick |-> t, pitch |-> p, inst |-> i]

\* songData.findIndex(n => n.tick === tick && n.pitch === pitch), 0 for -1.
FindIndex(song, t, p) ==
    LET hits == {k \in 1..Len(song) : song[k].tick = t /\ song[k].pitch = p}
    IN  IF hits = {} THEN 0 ELSE CHOOSE k \in hits : \A j \in hits : k <= j

\* Splice gone wrong: the first element is removed whatever the index.
SpliceFirst(song, k) == Tail(song)

\* songData.splice(index, 1)
Splice(song, k) == [j \in 1..(Len(song) - 1) |-> IF j < k THEN song[j] ELSE song[j + 1]]

\* ToggleNote gone wrong: the note is added without looking for one in the cell.
ToggleAlwaysAdds(song, t, p, i) == Append(song, Note(t, p, i))

\* ToggleNote gone wrong: a click on a cell that holds a note of another
\* instrument changes the note's instrument instead of removing the note.
ToggleOverwrites(song, t, p, i) ==
    LET index == FindIndex(song, t, p)
    IN  IF index = 0 THEN Append(song, Note(t, p, i))
        ELSE IF song[index].inst # i THEN [song EXCEPT ![index].inst = i]
        ELSE Splice(song, index)

\* toggleNote's effect on songData.
ToggleNote(song, t, p, i) ==
    LET index == FindIndex(song, t, p)
    IN  IF index > 0 THEN Splice(song, index) ELSE Append(song, Note(t, p, i))

\* NotesAt gone wrong: the filter compares with <= instead of ===.
NotesUpTo(song, t) == SelectSeq(song, LAMBDA n : n.tick <= t)

\* songData.filter(n => n.tick === currentTick)
NotesAt(song, t) == SelectSeq(song, LAMBDA n : n.tick = t)

\* One playPreview / playPreviewSound call: the instrument and pitch it is given.
Preview(n) == [inst |-> n.inst, pitch |-> n.pitch]

\* notes.forEach(n => playPreview(n.inst, n.pitch))
Previews(notes) == [k \in 1..Len(notes) |-> Preview(notes[k])]

RECURSIVE InsertByTick(_, _)
\* n put into the tick-sorted list after every element whose tick is not greater.
InsertByTick(sorted, n) ==
    IF sorted = <<>> THEN <<n>>
    ELSE IF sorted[Len(sorted)].tick <= n.tick THEN Append(sorted, n)
    ELSE Append(InsertByTick(SubSeq(sorted, 1, Len(sorted) - 1), n), sorted[Len(sorted)])

RECURSIVE SortByTick(_)
\* songData.sort((a, b) => a.tick - b.tick): Array.prototype.sort is stable.
SortByTick(song) ==
    IF song = <<>> THEN <<>>
    ELSE InsertByTick(SortByTick(SubSeq(song, 1, Len(song) - 1)), song[Len(song)])

\* ------------------------------------------------------------- transport
\* The transport as the handlers see it, with what a handler has done so far:
\* the transport functions it called, the previews it triggered (and how many
\* of them were rejected, missing being the instruments whose sound files do
\* not load) and the UI updates it made.
Transport == [isPlaying |-> isPlaying, currentTick |-> currentTick,
              playbackInterval |-> playbackInterval, timers |-> timers,
              calls |-> <<>>, previews |-> <<>>, missing |-> {}, failed |-> 0,
              ui |-> <<>>]

\* Entry into the transport function f.
Called(s, f) == [s EXCEPT !.calls = Append(@, f)]

\* clearInterval(h): no timer has the null handle or a handle already cleared.
ClearInterval(ts, h) == {t \in ts : t.id # h}

\* setInterval's return value: a handle no live timer has and the program does
\* not hold (the only handle the program keeps is playbackInterval).
FreshHandle(s) ==
    CHOOSE h \in 1..(MaxTimers + 2) :
        /\ h # s.playbackInterval
        /\ \A t \in s.timers : t.id # h
        /\ \A g \in 1..(h - 1) : g = s.playbackInterval \/ \E t \in s.timers : t.id = g

\* updateUI() / updateTimeDisplay(): one UI update showing currentTick.
UpdateUI(s) == [s EXCEPT !.ui = Append(@, s.currentTick)]

\* Pause gone wrong: it also rewinds to the first tick.
PauseRewinds(v, s) ==
    [Called(s, "pause") EXCEPT !.isPlaying = FALSE,
                               !.timers = ClearInterval(@, s.playbackInterval),
                               !.currentTick = 0]

\* pause()
Pause(v, s) ==
    LET c == Called(s, "pause")
    IN  CASE v = "part000" ->
               [c EXCEPT !.isPlaying = FALSE,
                         !.timers = IF s.playbackInterval # NullHandle
                                    THEN ClearInterval(@, s.playbackInterval) ELSE @]
          [] v \in {"scriptA", "scriptB"} ->
               [c EXCEPT !.isPlaying = FALSE,
                         !.timers = ClearInterval(@, s.playbackInterval)]
          [] v = "scriptC" ->
               IF ~s.isPlaying THEN c
               ELSE [c EXCEPT !.isPlaying = FALSE,
                              !.timers = IF s.playbackInterval # NullHandle
                                         THEN ClearInterval(@, s.playbackInterval) ELSE @,
                              !.playbackInterval = NullHandle]

\* Stop gone wrong: currentTick is not reset.
StopKeepsTick(v, s) == UpdateUI(Pause(v, Called(s, "stop")))

\* stop()
Stop(v, s) == UpdateUI([Pause(v, Called(s, "stop")) EXCEPT !.currentTick = 0])

\* Whether play() returns at once: scriptB's play() has no such guard.
PlayReturnsEarly(v, s) == v # "scriptB" /\ s.isPlaying

\* Play gone wrong: play() starts over from the first tick.
PlayRestarts(v, s, ms) ==
    IF PlayReturnsEarly(v, s) THEN Called(s, "play")
    ELSE [Called(s, "play") EXCEPT !.isPlaying = TRUE,
                                   !.playbackInterval = FreshHandle(s),
                                   !.timers = @ \union {[id |-> FreshHandle(s), ms |-> ms]},
                                   !.currentTick = 0]

\* play(), ms being the period it computes.
Play(v, s, ms) ==
    LET c == Called(s, "play")
    IN  IF PlayReturnsEarly(v, s) THEN c
        ELSE LET h == FreshHandle(s)
             IN  [c EXCEPT !.isPlaying = TRUE,
                           !.playbackInterval = h,
                           !.timers = @ \union {[id |-> h, ms |-> ms]}]

\* PlayPreview gone wrong: requesting the sound also rewinds the transport.
PlayPreviewRewinds(s, n) ==
    [s EXCEPT !.previews = Append(@, Preview(n)), !.currentTick = 0]

\* playPreview(inst, pitch) / playPreviewSound: the sound is requested and a
\* rejected request is swallowed by the promise's catch handler.
PlayPreview(s, n) ==
    [s EXCEPT !.previews = Append(@, Preview(n)),
              !.failed = IF n.inst \in s.missing THEN @ + 1 ELSE @]

\* notes.forEach(n => playPreview(n.inst, n.pitch))
RECURSIVE PlayPreviews(_, _)
PlayPreviews(s, notes) ==
    IF notes = <<>> THEN s
    ELSE PlayPreviews(PlayPreview(s, Head(notes)), Tail(notes))

\* Advance gone wrong: a rejected preview ends the callback before the UI
\* update and the increment.
AdvanceUnlessRejected(s, song) ==
    LET played == PlayPreviews(s, NotesAt(song, s.currentTick))
        shown == UpdateUI(played)
    IN  IF played.failed > 0 THEN played ELSE [shown EXCEPT !.currentTick = @ + 1]

\* The body of the interval callback past its end-of-song test.
Advance(s, song) ==
    LET played == PlayPreviews(s, NotesAt(song, s.currentTick))
        shown == UpdateUI(played)
    IN  [shown EXCEPT !.currentTick = @ + 1]

\* Tick gone wrong: the end-of-song test is > instead of >=.
TickOffByOne(v, s, song, repeat) ==
    IF s.currentTick > TotalTicks THEN Stop(v, s) ELSE Advance(s, song)

\* Tick gone wrong: the song starts over at its end whatever the repeat option.
TickAlwaysLoops(v, s, song, repeat) ==
    IF s.currentTick >= TotalTicks
    THEN Advance([s EXCEPT !.currentTick = 0], song)
    ELSE Advance(s, song)

\* The interval callback of play().
Tick(v, s, song, repeat) ==
    IF s.currentTick >= TotalTicks
    THEN IF v = "scriptA" /\ repeat
         THEN Advance([s EXCEPT !.currentTick = 0], song)
         ELSE Stop(v, s)
    ELSE Advance(s, song)

\* Math.floor((value / 100) * total): value / 100 and its product with total
\* are exact for the slider positions of SeekValues.
SeekTickOf(value, total) == (value * total) \div 100

\* Seek gone wrong: the product is rounded to the nearest tick.
SeekTickRounded(value) == (value * TotalTicks + 50) \div 100

\* Math.floor((e.target.value / 100) * totalTicks)
SeekTick(value) == SeekTickOf(value, TotalTicks)

\* The progress bar's input handler.
Seek(v, s, value, ms) ==
    IF v \in {"part000", "scriptC"}
    THEN LET wasPlaying == s.isPlaying
             paused == IF wasPlaying THEN Pause(v, s) ELSE s
             moved == UpdateUI([paused EXCEPT !.currentTick = SeekTick(value)])
         IN  IF wasPlaying THEN Play(v, moved, ms) ELSE moved
    ELSE UpdateUI([s EXCEPT !.currentTick = SeekTick(value)])

\* ---------------------------------------------------------------- export
\* Math.floor(Math.random() * 900) + 100, and scriptA's
\* Math.floor(Math.random() * 1000) + 1; r is the draw in thousandths.
FileId(v, r) ==
    IF v = "scriptA" THEN (r * 1000) \div 1000 + 1 ELSE (r * 900) \div 1000 + 100

\* songData as the export leaves it: every variant but scriptA sorts it in place.
ExportOrder(v, song) == IF v = "scriptA" THEN song ELSE SortByTick(song)

\* The artifact's instruments array (scriptA: the values of mcInstruments),
\* indexed from 1 here and from 0 in the source.
instruments == <<"note.harp", "note.bass", "note.guitar", "note.banjo", "note.pling">>

\* this.instruments[i]
SoundId(i) == instruments[i + 1]

\* 2^(r/12) for r = 0..11 in millionths, indexed from 1: the values Math.pow
\* returns for the exponents that are not whole, to six decimals.
SemitoneRatios ==
    << 1000000, 1059463, 1122462, 1189207, 1259921, 1334840,
       1414214, 1498307, 1587401, 1681793, 1781797, 1887749 >>

\* Pitch gone wrong: the exponent is centred on index 0, not on index 12.
PitchRatioUncentred(p) ==
    LET octave == p \div 12
        ratio == SemitoneRatios[(p % 12) + 1]
    IN  IF octave >= 0 THEN ratio * (2 ^ octave) ELSE ratio \div (2 ^ (0 - octave))

\* Math.pow(2, (p - 12) / 12) in millionths: a whole exponent gives the exact
\* power of two, any other the power of two times the semitone's ratio.
PitchRatio(p) ==
    LET octave == (p - 12) \div 12
        ratio == SemitoneRatios[((p - 12) % 12) + 1]
    IN  IF octave >= 0 THEN ratio * (2 ^ octave) ELSE ratio \div (2 ^ (0 - octave))

\* mcPitch.toFixed(2): a ratio in millionths rounded to hundredths.
ToFixed2(ratio) == (ratio + 5000) \div 10000

\* "tuples": data is a list of [tick, inst, pitch] and the artifact has
\* getNotesAt; "objects": scriptA's list of {tick, sound, pitch}.
ExportFormat(v) == IF v = "scriptA" THEN "objects" ELSE "tuples"

\* The exported note list: one entry per note of the list as the export
\* leaves it.
ExportData(v, song) ==
    LET list == ExportOrder(v, song)
    IN  IF ExportFormat(v) = "objects"
        THEN [k \in 1..Len(list) |->
                [tick |-> list[k].tick, sound |-> SoundId(list[k].inst),
                 pitch |-> ToFixed2(PitchRatio(list[k].pitch))]]
        ELSE [k \in 1..Len(list) |-> <<list[k].tick, list[k].inst, list[k].pitch>>]

\* No identifier: scriptA's artifact exports no named structure.
NoId == 0

\* The downloaded file: its name music<file>.js, the exported structure
\* Music<name>, its id field (scriptA: SONG_ID) and its note list.
Artifact(v, id, song) ==
    [format |-> ExportFormat(v), file |-> id,
     name |-> IF ExportFormat(v) = "objects" THEN NoId ELSE id,
     id |-> id, data |-> ExportData(v, song)]

\* Nothing has been exported.
NoArtifact == [format |-> "none", file |-> NoId, name |-> NoId, id |-> NoId, data |-> <<>>]

\* getNotesAt gone wrong: the filter keeps every note up to the tick.
RECURSIVE GetNotesUpTo(_, _)
GetNotesUpTo(data, tick) ==
    IF data = <<>> THEN <<>>
    ELSE LET n == Head(data)
             rest == GetNotesUpTo(Tail(data), tick)
         IN  IF n[1] <= tick
             THEN <<[sound |-> SoundId(n[2]), pitch |-> PitchRatio(n[3])]>> \o rest
             ELSE rest

\* The artifact's getNotesAt(tick): filter data by tick, map each match to
\* {sound, pitch}. Tuple positions are 1..3 here and 0..2 in the source.
RECURSIVE GetNotesAt(_, _)
GetNotesAt(data, tick) ==
    IF data = <<>> THEN <<>>
    ELSE LET n == Head(data)
             rest == GetNotesAt(Tail(data), tick)
         IN  IF n[1] = tick
             THEN <<[sound |-> SoundId(n[2]), pitch |-> PitchRatio(n[3])]>> \o rest
             ELSE rest

\* ------------------------------------------------------------ observers
\* What a handler was given and what it emitted: its input, the preview
\* triggers, the UI updates (the tick each showed) and the export's output.
Emitted(op, arg, s) ==
    [op |-> op, arg |-> arg, calls |-> s.calls, previews |-> s.previews,
     failed |-> s.failed, ui |-> s.ui, artifact |-> NoArtifact, found |-> <<>>]

\* The state a handler starts from, kept for the properties that compare a
\* handler's result with it.
Before == [song |-> songData, isPlaying |-> isPlaying, currentTick |-> currentTick]

\* No undisturbed play-through is under way.
NoRun == [clean |-> FALSE, fires |-> 0, uis |-> 0, uiAtTotal |-> 0]

\* How many UI updates of a handler showed tick t.
ShownAt(ui, t) == Cardinality({k \in 1..Len(ui) : ui[k] = t})

\* ----------------------------------------------------------------- init
\* Every variable but the note list, as the page's script leaves it.
Loaded ==
    /\ variant \in Variants
    /\ isPlaying = FALSE
    /\ currentTick = 0
    /\ playbackInterval = NullHandle
    /\ timers = {}
    /\ selectedInst = 0
    /\ speedInput = <<"1">>
    /\ speed = Num(1)
    /\ repeatChecked = FALSE
    /\ out = Emitted("init", <<>>, UpdateUI(Transport))
    /\ run = NoRun

\* The page as loaded: no note placed.
InitEditor == Loaded /\ songData = <<>> /\ pre = Before

\* Note lists placed before the transport is first used: none, and one with
\* two notes on the first tick and one on the last, entered out of tick order.
SampleSongs ==
    { <<>>,
      <<Note(TotalTicks - 1, 0, 1), Note(0, 12, 0), Note(0, 0, 1)>> }

\* The page with one of the sample songs entered.
Init == Loaded /\ songData \in SampleSongs /\ pre = Before

\* The transport variables take the values of s.
SetTransport(s) ==
    /\ isPlaying' = s.isPlaying
    /\ currentTick' = s.currentTick
    /\ playbackInterval' = s.playbackInterval
    /\ timers' = s.timers

\* --------------------------------------------------------------- actions
\* A click on a grid cell: toggleNote(tick, pitch, cell).
ToggleClick(t, p) ==
    LET s == IF FindIndex(songData, t, p) > 0 THEN Transport
             ELSE PlayPreview(Transport, Note(t, p, selectedInst))
    IN  /\ Len(ToggleNote(songData, t, p, selectedInst)) <= MaxNotes
        /\ songData' = ToggleNote(songData, t, p, selectedInst)
        /\ SetTransport(s)
        /\ out' = Emitted("toggle", <<t, p, selectedInst>>, s)
        /\ pre' = Before
        /\ UNCHANGED <<variant, selectedInst, speedInput, speed, repeatChecked, run>>

\* The instrument select's change handler.
InstrumentChange(i) ==
    /\ selectedInst' = i
    /\ out' = Emitted("instrument", <<i>>, Transport)
    /\ pre' = Before
    /\ UNCHANGED <<variant, songData, isPlaying, currentTick, playbackInterval, timers,
                   speedInput, speed, repeatChecked, run>>

\* The play button.
PlayClick ==
    LET s == Play(variant, Transport, Period(PlaySpeed(variant, speedInput, speed)))
    IN  /\ Cardinality(s.timers) <= MaxTimers
        /\ SetTransport(s)
        /\ out' = Emitted("play", <<>>, s)
        /\ pre' = Before
        /\ run' = IF ~isPlaying /\ currentTick = 0 /\ timers = {} /\ ~repeatChecked
                  THEN [clean |-> TRUE, fires |-> 0, uis |-> 0, uiAtTotal |-> 0]
                  ELSE NoRun
        /\ UNCHANGED <<variant, songData, selectedInst, speedInput, speed, repeatChecked>>

\* The pause button.
PauseClick ==
    LET s == Pause(variant, Transport)
    IN  /\ SetTransport(s)
        /\ out' = Emitted("pause", <<>>, s)
        /\ pre' = Before
        /\ run' = NoRun
        /\ UNCHANGED <<variant, songData, selectedInst, speedInput, speed, repeatChecked>>

\* The stop button.
StopClick ==
    LET s == Stop(variant, Transport)
    IN  /\ SetTransport(s)
        /\ out' = Emitted("stop", <<>>, s)
        /\ pre' = Before
        /\ run' = NoRun
        /\ UNCHANGED <<variant, songData, selectedInst, speedInput, speed, repeatChecked>>

\* A live interval timer fires: the callback play() gave to setInterval runs.
IntervalFires(missing) ==
    /\ timers # {}
    /\ variant = "scriptA" => missing = {}
    /\ LET s == Tick(variant, [Transport EXCEPT !.missing = missing], songData, repeatChecked)
       IN  /\ SetTransport(s)
           /\ out' = Emitted("tick", <<>>, s)
           /\ run' = IF run.clean
                     THEN [clean |-> TRUE, fires |-> run.fires + 1,
                           uis |-> run.uis + Len(s.ui),
                           uiAtTotal |-> run.uiAtTotal + ShownAt(s.ui, TotalTicks)]
                     ELSE run
    /\ pre' = Before
    /\ UNCHANGED <<variant, songData, selectedInst, speedInput, speed, repeatChecked>>

\* The progress bar is dragged to value.
ProgressInput(value) ==
    LET s == Seek(variant, Transport, value, Period(PlaySpeed(variant, speedInput, speed)))
    IN  /\ SetTransport(s)
        /\ out' = Emitted("seek", <<value>>, s)
        /\ pre' = Before
        /\ run' = NoRun
        /\ UNCHANGED <<variant, songData, selectedInst, speedInput, speed, repeatChecked>>

\* A text is entered into the speed input. scriptA's change handler parses it
\* into the global speed and restarts a running playback; the other variants
\* read the input only in play().
SpeedChange(text) ==
    /\ speedInput' = text
    /\ pre' = Before
    /\ IF variant = "scriptA"
       THEN LET parsed == ParseFloat(text)
                s == IF isPlaying
                     THEN Play(variant, Pause(variant, Transport), Period(parsed))
                     ELSE Transport
            IN  /\ speed' = parsed
                /\ SetTransport(s)
                /\ out' = Emitted("speed", text, s)
                /\ run' = NoRun
       ELSE /\ out' = Emitted("speed", text, Transport)
            /\ UNCHANGED <<speed, isPlaying, currentTick, playbackInterval, timers, run>>
    /\ UNCHANGED <<variant, songData, selectedInst, repeatChecked>>

\* scriptA's repeat checkbox is clicked.
RepeatToggle ==
    /\ variant = "scriptA"
    /\ repeatChecked' = ~repeatChecked
    /\ out' = Emitted("repeat", <<>>, Transport)
    /\ pre' = Before
    /\ run' = NoRun
    /\ UNCHANGED <<variant, songData, isPlaying, currentTick, playbackInterval, timers,
                   selectedInst, speedInput, speed>>

\* The download button: generateFile / generateApiFile / generateBedrockScript,
\* r being the value Math.random() returns.
Download(r) ==
    /\ songData' = ExportOrder(variant, songData)
    /\ out' = [Emitted("export", <<r>>, Transport)
                  EXCEPT !.artifact = Artifact(variant, FileId(variant, r), songData)]
    /\ pre' = Before
    /\ UNCHANGED <<variant, isPlaying, currentTick, playbackInterval, timers,
                   selectedInst, speedInput, speed, repeatChecked, run>>

\* A call of the downloaded artifact's getNotesAt(tick).
GetNotesAtCall(t) ==
    /\ out.op \in {"export", "query"}
    /\ out.artifact.format = "tuples"
    /\ out' = [out EXCEPT !.op = "query", !.arg = <<t>>,
                          !.found = GetNotesAt(out.artifact.data, t)]
    /\ pre' = Before
    /\ UNCHANGED <<variant, songData, isPlaying, currentTick, playbackInterval, timers,
                   selectedInst, speedInput, speed, repeatChecked, run>>

\* The transport's handlers and the timer.
TransportStep ==
    \/ PlayClick
    \/ PauseClick
    \/ StopClick
    \/ \E missing \in SUBSET Instruments : IntervalFires(missing)
    \/ \E value \in SeekValues : ProgressInput(value)
    \/ \E text \in SpeedTexts : SpeedChange(text)
    \/ RepeatToggle

\* The transport driven over a fixed song.
Next == TransportStep

Spec == Init /\ [][Next]_vars

\* A live interval timer fires again and again: the event loop runs the
\* callback of every timer that is not cleared.
TimerFairness == WF_vars(\E missing \in SUBSET Instruments : IntervalFires(missing))

\* The transport with its timers kept firing.
SpecLive == Spec /\ TimerFairness

\* The editor with playback: notes are toggled and exported while the
\* transport plays through at the initial speed.
NextNotes ==
    \/ \E t \in EditTicks, p \in Pitches : ToggleClick(t, p)
    \/ \E i \in Instruments : InstrumentChange(i)
    \/ \E r \in RandomDraws : Download(r)
    \/ PlayClick
    \/ PauseClick
    \/ IntervalFires({})

SpecNotes == InitEditor /\ [][NextNotes]_vars

\* The editor with export: notes are toggled, the song is downloaded and the
\* downloaded artifact is queried.
NextExport ==
    \/ \E t \in EditTicks, p \in Pitches : ToggleClick(t, p)
    \/ \E i \in Instruments : InstrumentChange(i)
    \/ \E r \in RandomDraws : Download(r)
    \/ \E t \in 0..TotalTicks : GetNotesAtCall(t)

SpecExport == InitEditor /\ [][NextExport]_vars

\* Playback with pauses: only play(), pause() and the timer, from tick 0.
NextResume ==
    \/ PlayClick
    \/ PauseClick
    \/ \E missing \in SUBSET Instruments : IntervalFires(missing)

SpecResume == Init /\ [][NextResume]_vars

\* The editor with the whole transport: notes are toggled on one pitch while
\* the transport is played, paused, stopped and sought to the middle.
NextEditor ==
    \/ \E t \in EditTicks : ToggleClick(t, 12)
    \/ PlayClick
    \/ PauseClick
    \/ StopClick
    \/ IntervalFires({})
    \/ ProgressInput(50)

SpecEditor == InitEditor /\ [][NextEditor]_vars

\* One-note songs, one per pitch of the grid and instrument.
PitchSongs == { <<Note(0, p, i)>> : p \in 0..(pitchRange - 1), i \in Instruments }

\* The page with one note placed.
InitPitch == Loaded /\ songData \in PitchSongs /\ pre = Before

\* Export and query of a one-note song.
NextPitch ==
    \/ \E r \in RandomDraws : Download(r)
    \/ \E t \in {0, 1} : GetNotesAtCall(t)

SpecPitch == InitPitch /\ [][NextPitch]_vars

\* ================================================================ claims

\* C1: at most one periodic tick-advancer is alive at any time, whatever
\* sequence of play, pause, stop, seek and timer firings came before.
OneAdvancer == Cardinality(timers) <= 1

\* C2: no tick-advance fires while the transport is not playing, that is,
\* between a pause() or stop() and the next play().
NoTickAfterCancel == [][out'.op = "tick" => isPlaying]_vars

\* C3: 0 <= currentTick <= totalTicks in every reachable state.
TickInRange == 0 <= currentTick /\ currentTick <= TotalTicks

\* C3 witness: the tick-advance of the last tick brought currentTick to
\* totalTicks.
TickInRangeWitness ==
    /\ currentTick = TotalTicks
    /\ out.op = "tick"
    /\ pre.currentTick = TotalTicks - 1

\* C4: when currentTick = totalTicks the clock is stopped: not running and no
\* advancer scheduled (stated of part_000).
StoppedAtEnd ==
    (variant = "part000" /\ currentTick = TotalTicks) => (~isPlaying /\ timers = {})

\* C5: play() from Stopped at tick 0 and nothing else: after totalTicks
\* tick-advances the transport is Stopped at tick 0, with exactly totalTicks UI
\* updates emitted and none showing tick totalTicks (stated of part_000).
PlayThrough ==
    (variant = "part000" /\ run.clean /\ run.fires = TotalTicks)
        => /\ ~isPlaying
           /\ currentTick = 0
           /\ run.uis = TotalTicks
           /\ run.uiAtTotal = 0

\* C6: with the repeat option off, a tick-advance that fires with
\* currentTick >= totalTicks emits no preview trigger, leaves the transport
\* as stop() does (not running, tick 0, one UI update) with no advancer
\* scheduled; no tick-advance goes past totalTicks or wraps to tick 0 while
\* still playing (stated of part_000 and of scriptA).
EndOfSongStops ==
    (variant \in {"part000", "scriptA"} /\ out.op = "tick" /\ ~repeatChecked)
        => /\ currentTick <= TotalTicks
           /\ pre.currentTick >= TotalTicks
                => /\ out.previews = <<>>
                   /\ ~isPlaying
                   /\ timers = {}
                   /\ currentTick = 0
                   /\ out.ui = <<0>>
           /\ (isPlaying /\ pre.currentTick > 0) => currentTick > 0

\* C6 witness: the tick-advance after the last tick of a song with notes has
\* fired in part_000.
EndOfSongStopsWitness ==
    /\ variant = "part000"
    /\ out.op = "tick"
    /\ pre.currentTick = TotalTicks
    /\ pre.isPlaying
    /\ songData # <<>>

\* C7: the note store holds at most one note per (tick, pitch) pair.
OneNotePerCell ==
    \A j, k \in 1..Len(songData) :
        (songData[j].tick = songData[k].tick /\ songData[j].pitch = songData[k].pitch)
            => j = k

\* C7 witness: a click on an occupied cell, made with the other instrument
\* selected, took its note away and left the note of another cell.
OneNotePerCellWitness ==
    /\ out.op = "toggle"
    /\ Len(pre.song) = 2
    /\ Len(songData) = 1
    /\ \E k \in 1..2 : /\ pre.song[k].tick = out.arg[1]
                       /\ pre.song[k].pitch = out.arg[2]
                       /\ pre.song[k].inst # out.arg[3]

\* C8: toggle(t,p,i) on an empty cell followed at once by toggle(t,p,i) leaves
\* no note at (t,p) and the note list as it was before the first of the two.
ToggleTwice ==
    [][(/\ out.op = "toggle"
        /\ out'.op = "toggle"
        /\ out'.arg = out.arg
        /\ FindIndex(pre.song, out.arg[1], out.arg[2]) = 0)
       => (/\ FindIndex(songData', out.arg[1], out.arg[2]) = 0
           /\ songData' = pre.song)]_vars

\* C8 witness: a toggle took away the note that stood last in the list, the
\* place a note is added at, with the instrument it was added with, and
\* another note is stored.
ToggleTwiceWitness ==
    /\ out.op = "toggle"
    /\ out.previews = <<>>
    /\ songData # <<>>
    /\ pre.song = Append(songData, Note(out.arg[1], out.arg[2], out.arg[3]))

\* C9: a tick-advance that fires with currentTick = t < totalTicks emits one
\* preview trigger (instrument, pitch) per stored note with tick t and no
\* other, then increments currentTick by one.
TickPlaysItsNotes ==
    (out.op = "tick" /\ pre.currentTick < TotalTicks)
        => LET due == {k \in 1..Len(pre.song) : pre.song[k].tick = pre.currentTick}
           IN  /\ songData = pre.song
               /\ Len(out.previews) = Cardinality(due)
               /\ \A k \in due : \E j \in 1..Len(out.previews) :
                      /\ out.previews[j].inst = pre.song[k].inst
                      /\ out.previews[j].pitch = pre.song[k].pitch
               /\ \A j \in 1..Len(out.previews) : \E k \in due :
                      /\ out.previews[j].inst = pre.song[k].inst
                      /\ out.previews[j].pitch = pre.song[k].pitch
               /\ currentTick = pre.currentTick + 1

\* C9 witness: a tick-advance played the one note of its tick, which was
\* added after a note of a later tick, and left that other note silent.
TickPlaysItsNotesWitness ==
    /\ out.op = "tick"
    /\ Len(out.previews) = 1
    /\ Len(songData) = 2
    /\ songData[1].tick > songData[2].tick
    /\ songData[2].tick = pre.currentTick

\* C10: stop() from any transport state leaves the transport not running,
\* with no advancer scheduled and currentTick 0, and emits one UI update; the
\* rest of the transport is as pause() leaves it (stated of part_000 and of
\* scriptC).
StopResets ==
    [][(variant \in {"part000", "scriptC"} /\ out'.op = "stop")
       => (/\ ~isPlaying'
           /\ timers' = {}
           /\ currentTick' = 0
           /\ out'.ui = <<0>>
           /\ out'.previews = <<>>
           /\ isPlaying' = Pause(variant, Transport).isPlaying
           /\ timers' = Pause(variant, Transport).timers
           /\ playbackInterval' = Pause(variant, Transport).playbackInterval)]_vars

\* C10 witness: stop() was called while playing past tick 0 in scriptC.
StopResetsWitness ==
    /\ out.op = "stop"
    /\ variant = "scriptC"
    /\ pre.isPlaying
    /\ pre.currentTick > 0

\* C11: a seek issued while Playing pauses first, sets currentTick, then
\* resumes, leaving the transport Playing with exactly one advancer; a seek
\* issued while not running leaves it not running. Every seek handler.
SeekPausesThenResumes ==
    [][out'.op = "seek" =>
         /\ isPlaying => /\ out'.calls = <<"pause", "play">>
                         /\ isPlaying'
                         /\ Cardinality(timers') = 1
         /\ (~isPlaying /\ timers = {}) => (~isPlaying' /\ timers' = {})]_vars

TuplesOf(song) == [k \in 1..Len(song) |-> <<song[k].tick, song[k].inst, song[k].pitch>>]

\* C13: the exported data list holds exactly one tuple [tick, inst, pitch] per
\* stored note and nothing else, ordered by tick ascending. Every export
\* function.
ExportIsSortedTuples ==
    out.op = "export" =>
        /\ Len(out.artifact.data) = Len(pre.song)
        /\ out.artifact.data # <<>> => out.artifact.format = "tuples"
        /\ \E perm \in [1..Len(pre.song) -> 1..Len(pre.song)] :
              /\ \A j, k \in 1..Len(pre.song) : j # k => perm[j] # perm[k]
              /\ \A k \in 1..Len(pre.song) : out.artifact.data[k] = TuplesOf(pre.song)[perm[k]]
        /\ \A j, k \in 1..Len(out.artifact.data) :
              j < k => out.artifact.data[j][1] <= out.artifact.data[k][1]

\* C14: getNotesAt(t) of the exported artifact returns exactly one entry per
\* stored note with tick t (none when there is none), each with the sound id
\* at the note's instrument index and the pitch ratio of its pitch index:
\* entry for entry the notes the tick-advance triggers at tick t.
QueryRoundTrip ==
    out.op = "query" =>
        LET t == out.arg[1]
            triggered == PlayPreviews(Transport, NotesAt(songData, t)).previews
        IN  /\ Len(out.found) = Cardinality({k \in 1..Len(songData) : songData[k].tick = t})
            /\ Len(out.found) = Len(triggered)
            /\ \A k \in 1..Len(triggered) :
                  /\ out.found[k].sound = SoundId(triggered[k].inst)
                  /\ out.found[k].pitch = PitchRatio(triggered[k].pitch)

\* A query that finds one of two stored notes.
QueryRoundTripWitness ==
    /\ out.op = "query"
    /\ Len(songData) = 2
    /\ Len(out.found) = 1
    /\ out.found[1].sound = "note.bass"

\* C15: every export draws an identifier id with 100 <= id <= 999 and uses
\* that id in the artifact's id field, in the exported structure's name and
\* in the file name music<id>.js. Every export function.
ExportIdInRange ==
    out.op = "export" =>
        /\ 100 <= out.artifact.id
        /\ out.artifact.id <= 999
        /\ out.artifact.name = out.artifact.id
        /\ out.artifact.file = out.artifact.id

\* C16: the speed play() computes its period from is positive (a NaN, zero
\* or negative speed input counts as 1.0): every timer play() has started
\* has a period that is a positive number of milliseconds.
PeriodFromPositiveSpeed ==
    \A t \in timers : t.ms.k = "num" /\ t.ms.v > 0

\* C17: a rejected preview never changes the transport: the tick-advance in
\* which it fails still triggers every note of the tick, still increments
\* currentTick by one and leaves isPlaying and the timers as they were.
FailedPreviewIsIgnored ==
    [][(out'.op = "tick" /\ out'.failed > 0) =>
         /\ out'.previews = Previews(NotesAt(songData, currentTick))
         /\ currentTick' = currentTick + 1
         /\ isPlaying' = isPlaying
         /\ timers' = timers
         /\ playbackInterval' = playbackInterval]_vars

\* A tick-advance while playing whose first of two previews was rejected.
FailedPreviewIsIgnoredWitness ==
    /\ out.op = "tick"
    /\ out.failed = 1
    /\ Len(out.previews) = 2
    /\ out.previews[1].inst = 0
    /\ isPlaying
    /\ timers # {}

\* C18: the pitch ratio 2^((p - 12) / 12) the exported query returns is
\* exactly 1.0 for pitch index 12, 0.5 for index 0 and 2.0 for index 24, and
\* greater than the ratio of every lower pitch index. Ratios are in millionths.
PitchRatioAnchors ==
    /\ (out.op = "query" /\ out.found # <<>>) =>
          LET p == songData[1].pitch
              ratio == out.found[1].pitch
          IN  /\ p = 12 => ratio = 1000000
              /\ p = 0 => ratio = 500000
              /\ p = 24 => ratio = 2000000
              /\ \A q \in 0..(pitchRange - 1) : q < p => PitchRatio(q) < ratio
    \* scriptA writes the ratio into its note list, in hundredths
    /\ (out.op = "export" /\ out.artifact.format = "objects") =>
          LET p == songData[1].pitch
              ratio == out.artifact.data[1].pitch
          IN  /\ p = 12 => ratio = 100
              /\ p = 0 => ratio = 50
              /\ p = 24 => ratio = 200
              /\ \A q \in 0..(pitchRange - 1) : q < p => ToFixed2(PitchRatio(q)) < ratio

\* The query finds the note of the highest pitch index.
PitchRatioAnchorsWitness ==
    /\ out.op = "query"
    /\ out.found # <<>>
    /\ songData[1].pitch = pitchRange - 1
    /\ out.found[1].pitch = 2000000

\* C19: pause() never changes currentTick and always leaves isPlaying false;
\* when the transport is not playing, pause() changes nothing of the
\* transport and cancels no timer.
PauseKeepsTick ==
    [][out'.op = "pause" =>
         /\ currentTick' = currentTick
         /\ ~isPlaying'
         /\ ~isPlaying => /\ timers' = timers
                          /\ playbackInterval' = playbackInterval]_vars

\* pause() a second time, past the first tick: the program still holds the
\* handle of the timer the first pause() cancelled.
PauseKeepsTickWitness ==
    /\ out.op = "pause"
    /\ ~pre.isPlaying
    /\ currentTick > 0
    /\ playbackInterval # NullHandle

\* C20: toggle never overwrites an instrument: a toggle on a cell that holds
\* a note removes that note whatever instrument is selected, and every note
\* that is in the note list after a step was in it before with the same
\* instrument, or is the note the step added with the selected instrument.
ToggleNeverOverwrites ==
    [][/\ \A k \in 1..Len(songData') :
             \/ \E j \in 1..Len(songData) : songData[j] = songData'[k]
             \/ /\ out'.op = "toggle"
                /\ songData'[k] = Note(out'.arg[1], out'.arg[2], selectedInst)
       /\ (out'.op = "toggle" /\ FindIndex(songData, out'.arg[1], out'.arg[2]) > 0) =>
             /\ FindIndex(songData', out'.arg[1], out'.arg[2]) = 0
             /\ Len(songData') = Len(songData) - 1]_vars

\* A click, with one instrument selected, on a cell holding a note of the
\* other instrument, another note staying in the list.
ToggleNeverOverwritesWitness ==
    /\ out.op = "toggle"
    /\ FindIndex(pre.song, out.arg[1], out.arg[2]) > 0
    /\ pre.song[FindIndex(pre.song, out.arg[1], out.arg[2])].inst # out.arg[3]
    /\ Len(songData) = 1
    /\ songData[1].inst # selectedInst

\* C21: an export leaves the note list as it was (the same notes in the same
\* order) and leaves currentTick, isPlaying and the timers unchanged, whether
\* or not the transport is playing.
ExportIsPure ==
    [][out'.op = "export" =>
         /\ songData' = songData
         /\ currentTick' = currentTick
         /\ isPlaying' = isPlaying
         /\ timers' = timers
         /\ playbackInterval' = playbackInterval]_vars

\* C22: play, pause, stop, seek and the tick-advance never add or remove a
\* note, and toggle never changes currentTick, isPlaying or the timers.
OwnEntryPointsOnly ==
    [][/\ out'.op \in {"play", "pause", "stop", "seek", "tick"} => songData' = songData
       /\ out'.op = "toggle" =>
            /\ currentTick' = currentTick
            /\ isPlaying' = isPlaying
            /\ timers' = timers
            /\ playbackInterval' = playbackInterval]_vars

\* A note is added, and previewed, while the transport plays past tick 0.
OwnEntryPointsOnlyWitness ==
    /\ out.op = "toggle"
    /\ out.previews # <<>>
    /\ pre.isPlaying
    /\ pre.currentTick > 0
    /\ Len(songData) = 2

\* C23: pause and resume lose and repeat no tick: from tick 0, with only
\* play(), pause() and timer firings, every tick-advance processes the tick
\* currentTick holds (it shows and plays that tick) and moves on to the next,
\* and play() and pause() leave currentTick as it is, so the ticks processed
\* are 0, 1, 2, ... with none skipped and none processed twice.
NoTickLostOrRepeated ==
    [][/\ (out'.op = "tick" /\ currentTick < TotalTicks) =>
            /\ out'.ui = <<currentTick>>
            /\ out'.previews = Previews(NotesAt(songData, currentTick))
            /\ currentTick' = currentTick + 1
       /\ out'.op \in {"play", "pause"} => currentTick' = currentTick]_vars

\* play() after a pause() past the first tick: playback resumes there.
NoTickLostOrRepeatedWitness ==
    /\ out.op = "play"
    /\ ~pre.isPlaying
    /\ pre.currentTick > 0
    /\ isPlaying
    /\ currentTick = pre.currentTick
    /\ songData # <<>>

\* C24: playback terminates: when, after play(), no further user command
\* arrives and the timer keeps firing (from some point on every step is a
\* timer firing), the transport eventually is stopped for good: isPlaying
\* false, currentTick 0 and no timer live. Every variant, also with scriptA's
\* repeat option.
PlaybackTerminates ==
    <>[](out.op = "tick") => <>[](~isPlaying /\ currentTick = 0 /\ timers = {})

\* C25: where play() reads the speed input (part_000, scriptB, scriptC), a
\* timer's period is fixed by the speed input as it is read when play()
\* starts the timer: a step starts a timer only by calling play(), the new
\* timer is the one the program holds and has the period of the speed input
\* at that moment, and a change of the speed input changes no timer. The
\* play() a seek performs during playback is such a play().
PeriodFixedAtPlay ==
    [][variant # "scriptA" =>
         /\ \A t \in timers' :
              \/ t \in timers
              \/ /\ \E k \in 1..Len(out'.calls) : out'.calls[k] = "play"
                 /\ t.id = playbackInterval'
                 /\ t.ms = Period(OrOne(ParseFloat(speedInput)))
         /\ out'.op = "speed" => timers' = timers]_vars

\* A seek during playback, after the speed input was set to 2: the timer the
\* seek's play() started has the new period.
PeriodFixedAtPlayWitness ==
    /\ variant # "scriptA"
    /\ out.op = "seek"
    /\ out.calls = <<"pause", "play">>
    /\ speedInput = <<"2">>
    /\ timers = {[id |-> playbackInterval, ms |-> Num(25)]}

====
